---------------------------- MODULE Spec2Model ----------------------------
(***************************************************************************)
(* PaperForest (src/paperforest.py): the reading log, the streak           *)
(* calculator, the per-day streaks and the calendar grid of render_forest, *)
(* and the stage selector.                                                 *)
(*                                                                         *)
(* A date is its proleptic Gregorian ordinal (date.toordinal()), so that   *)
(* timedelta arithmetic is integer arithmetic.  A text value (logged_on,   *)
(* paper_id) is the sequence of its characters.                            *)
(***************************************************************************)
EXTENDS Integers, Sequences, FiniteSets, TLC

VARIABLES
    today,  \* what date.today() returns during the run
    log,    \* the rows of table reading_log, in insertion order
    out,    \* what the last command computed and printed
    sym,    \* the last direct call of stage_for_count and its result
    rand    \* the generator object made by the last stage_for_count call

vars == <<today, log, out, sym, rand>>

---------------------------------------------------------------------------
(* Bounds of the model *)

FirstToday == 738900   \* ordinal of the first modelled today (2024-01-15)
NumTodays  == 7        \* today ranges over this many consecutive days
DaysBefore == 2        \* logged days start this many days before FirstToday
NumLogDays == 4        \* number of consecutive days that can carry logs
MaxCount   == 2        \* most logs per day in a drawn table
MaxWeeks   == 1        \* largest --weeks argument
MaxN       == 7        \* largest argument of a direct stage_for_count call
MaxLogs    == 3        \* most rows of the table built by add_log
NumAddDays == 2        \* number of days add_log is called with

MinWeeks == 0 - 1
MinN     == 0 - 1

Todays   == FirstToday .. (FirstToday + NumTodays - 1)
LogDays  == (FirstToday - DaysBefore) .. (FirstToday - DaysBefore + NumLogDays - 1)
AddDays  == FirstToday .. (FirstToday + NumAddDays - 1)
WeeksArg == MinWeeks .. MaxWeeks

---------------------------------------------------------------------------
(* Text and dates *)

Digits == <<"0", "1", "2", "3", "4", "5", "6", "7", "8", "9">>

DigitChar(n) == Digits[n + 1]

\* the value of each digit character
DigitValues == [c \in {Digits[i] : i \in 1..10} |->
                    (CHOOSE i \in 1..10 : Digits[i] = c) - 1]

DigitVal(c) == DigitValues[c]

\* the byte a character compares by (ASCII: '-' is 45, '0'..'9' are 48..57)
CharCode(c) == IF c = "-" THEN 45 ELSE 48 + DigitVal(c)

\* the number of decimal digits of n >= 0
NumDigits(n) == CHOOSE k \in 1..9 : n < 10 ^ k /\ (k = 1 \/ n >= 10 ^ (k - 1))

\* n >= 0 printed in w digits, w at least NumDigits(n)
PrintDigits(n, w) == [i \in 1..w |-> DigitChar((n \div (10 ^ (w - i))) % 10)]

\* str(n) for n >= 0
Decimal(n) == PrintDigits(n, NumDigits(n))

\* a number printed in at least w digits (%Y is 4 wide, %m and %d are 2)
ZeroPad(n, w) == PrintDigits(n, IF NumDigits(n) > w THEN NumDigits(n) ELSE w)

\* int(s) of a string of at most four digits
ParseInt(s) ==
    LET n == Len(s)
        Place(k) == IF n >= k THEN DigitVal(s[n + 1 - k]) * (10 ^ (k - 1)) ELSE 0
    IN  Place(1) + Place(2) + Place(3) + Place(4)

\* the months the modelled dates fall in, with the ordinal of their first day
Months ==
    { [year |-> 2023, month |-> 12, first |-> 738855, len |-> 31],
      [year |-> 2024, month |-> 1,  first |-> 738886, len |-> 31],
      [year |-> 2024, month |-> 2,  first |-> 738917, len |-> 29] }

MonthOf(d) == CHOOSE r \in Months : r.first <= d /\ d < r.first + r.len

\* date.weekday(): Monday is 0, Sunday is 6 (ordinal 1 is a Monday)
weekday(d) == (d + 6) % 7

\* every day of the modelled months
CalendarDays == UNION {r.first .. (r.first + r.len - 1) : r \in Months}

\* strftime of a day d of month r as YYYY-MM-DD
FormatDate(r, d) ==
    ZeroPad(r.year, 4) \o <<"-">> \o ZeroPad(r.month, 2) \o <<"-">>
        \o ZeroPad(d - r.first + 1, 2)

\* strptime of s with format %Y-%m-%d, as an ordinal
ParseDate(s) ==
    LET y == ParseInt(SubSeq(s, 1, 4))
        m == ParseInt(SubSeq(s, 6, 7))
        dd == ParseInt(SubSeq(s, 9, 10))
        r == CHOOSE q \in Months : q.year = y /\ q.month = m
    IN  r.first + dd - 1

\* the two conversions, tabulated over the modelled days
IsoText == [d \in CalendarDays |-> FormatDate(MonthOf(d), d)]

IsoDate == [s \in {IsoText[d] : d \in CalendarDays} |-> ParseDate(s)]

\* date.isoformat(): YYYY-MM-DD
isoformat(d) == IsoText[d]

\* datetime.strptime(s, "%Y-%m-%d").date()
parse_iso(s) == IsoDate[s]

\* a <= b for TEXT values in SQLite's BINARY collation: memcmp of the
\* common prefix, then the shorter value first
TextLE(a, b) ==
    LET n    == IF Len(a) <= Len(b) THEN Len(a) ELSE Len(b)
        diff == {i \in 1..n : a[i] # b[i]}
    IN  IF diff = {} THEN Len(a) <= Len(b)
        ELSE LET i == CHOOSE j \in diff : \A k \in diff : j <= k
             IN  CharCode(a[i]) < CharCode(b[i])

---------------------------------------------------------------------------
(* The table reading_log *)

\* one row: the columns the commands read (title, summary and word count
\* take no part in any query's WHERE, GROUP BY or ORDER BY)
Row(pid, logged) == [paper_id |-> pid, logged_on |-> logged]

\* SELECT COUNT(*) FROM reading_log WHERE logged_on = ?
CountOn(table, logged) ==
    Cardinality({i \in 1..Len(table) : table[i].logged_on = logged})

\* the distinct logged_on values of the table
LoggedOnValues(table) == {table[i].logged_on : i \in 1..Len(table)}

RECURSIVE SortText(_)
\* ORDER BY ... ASC of a set of TEXT values
SortText(S) ==
    IF S = {} THEN <<>>
    ELSE LET m == CHOOSE x \in S : \A y \in S : TextLE(x, y)
         IN  <<m>> \o SortText(S \ {m})

get_distinct_days(table) ==
    LET rows == SortText(LoggedOnValues(table))
    IN  [i \in 1..Len(rows) |-> parse_iso(rows[i])]

---------------------------------------------------------------------------
(* compute_streaks *)

RECURSIVE RunForward(_, _)
\* the inner while of the longest-streak loop: the run counted from cur
RunForward(day_set, cur) ==
    IF (cur + 1) \in day_set THEN 1 + RunForward(day_set, cur + 1) ELSE 1

\* whether the longest-streak loop treats d as the start of a streak
IsRunStart(day_set, d) == (d - 1) \notin day_set

\* the last run counted replaces the longest so far
Max2_lastRun(a, b) == b

Max2(a, b) == IF a >= b THEN a ELSE b

RECURSIVE LongestLoop(_, _, _, _)
\* for d in days: ... longest = max(longest, run)
LongestLoop(days, day_set, i, longest) ==
    IF i > Len(days) THEN longest
    ELSE IF IsRunStart(day_set, days[i])
         THEN LongestLoop(days, day_set, i + 1,
                          Max2(longest, RunForward(day_set, days[i])))
         ELSE LongestLoop(days, day_set, i + 1, longest)

RECURSIVE CountBack(_, _)
\* the backward while: the run counted back from cur
CountBack(day_set, cur) ==
    IF (cur - 1) \in day_set THEN 1 + CountBack(day_set, cur - 1) ELSE 1

\* a streak that counts only when today is logged
StreakEnd_todayOnly(day_set, now) == IF now \in day_set THEN now ELSE 0

\* the day the current streak is counted back from; 0 stands for "none"
StreakEnd(day_set, now) ==
    IF now \in day_set THEN now
    ELSE IF (now - 1) \in day_set THEN now - 1
    ELSE 0

compute_streaks(days, now) ==
    IF Len(days) = 0 THEN <<0, 0>>
    ELSE LET day_set == {days[i] : i \in 1..Len(days)}
             longest == LongestLoop(days, day_set, 1, 1)
             end     == StreakEnd(day_set, now)
         IN  IF end = 0 THEN <<0, longest>>
             ELSE <<CountBack(day_set, end), longest>>

---------------------------------------------------------------------------
(* Stage selector *)

RAND_SEED == 19

SEED_LIST == <<"beans", "chestnut">>

SAPLING_LIST ==
    [i \in 1..10 |-> "seedling"]
        \o <<"herb", "leaves", "shamrock", "herb", "leaves", "shamrock",
             "herb", "leaves", "shamrock">>
        \o <<"clover">>

TREE_LIST ==
    <<"deciduous", "evergreen", "deciduous", "evergreen",
      "deciduous", "evergreen", "deciduous", "evergreen">>
        \o <<"mushroom", "brown mushroom">>

BUG_LIST ==
    <<"bug", "lady beetle", "butterfly", "honeybee", "ant", "cricket",
      "snail", "spider">>

WOODLAND_ANIMAL_LIST ==
    <<"chipmunk", "badger", "hedgehog", "deer", "mouse", "fox", "bear",
      "wolf", "owl", "eagle">>

\* the top 8 bits of the successive 32-bit words the Mersenne Twister
\* yields after Random(19)
MT19 ==
    <<173, 11, 200, 229, 133, 30, 130, 51, 100, 88, 255, 135,
      74, 149, 37, 152, 66, 27, 66, 105, 83, 247, 68, 213>>

\* a generator is the number of words drawn from it since it was seeded
\* with RAND_SEED; Random(RAND_SEED) is a generator that has drawn none
Random(seed) == 0

RECURSIVE bit_length(_)
bit_length(n) == IF n = 0 THEN 0 ELSE 1 + bit_length(n \div 2)

\* getrandbits(k), k <= 8: the top k bits of the next word
getrandbits(g, k) ==
    [r |-> MT19[(g % Len(MT19)) + 1] \div (2 ^ (8 - k)),
     g |-> (g + 1) % Len(MT19)]

RECURSIVE randbelow(_, _, _)
\* Random._randbelow_with_getrandbits: draw k bits until the value is < n
randbelow(g, n, k) ==
    LET x == getrandbits(g, k)
    IN  IF x.r >= n THEN randbelow(x.g, n, k) ELSE x

\* Random.choice(seq): the element chosen and the generator afterwards
choice(g, seq) ==
    LET x == randbelow(g, Len(seq), bit_length(Len(seq)))
    IN  [symbol |-> seq[x.r + 1], rand |-> x.g]

\* a selector without the n == 4 branch
PaletteFor_noBugs(n) ==
    IF n = 1 THEN SEED_LIST
    ELSE IF n = 2 THEN SAPLING_LIST
    ELSE IF n = 3 THEN TREE_LIST
    ELSE WOODLAND_ANIMAL_LIST

\* the palette stage_for_count draws from for n > 0
PaletteFor(n) ==
    IF n = 1 THEN SEED_LIST
    ELSE IF n = 2 THEN SAPLING_LIST
    ELSE IF n = 3 THEN TREE_LIST
    ELSE IF n = 4 THEN BUG_LIST
    ELSE WOODLAND_ANIMAL_LIST

\* a selector that tests n < 0 for the empty glyph
stage_for_count_strict(n, g) ==
    IF n < 0 THEN [symbol |-> ".", rand |-> g]
    ELSE choice(Random(RAND_SEED), PaletteFor(n))

\* a selector that draws from one generator shared by all calls
stage_for_count_shared(n, g) ==
    IF n <= 0 THEN [symbol |-> ".", rand |-> g]
    ELSE choice(g, PaletteFor(n))

\* stage_for_count(n); g is the generator the previous call left behind,
\* which every branch replaces by a new Random(RAND_SEED)
stage_for_count(n, g) ==
    IF n <= 0 THEN [symbol |-> ".", rand |-> g]
    ELSE choice(Random(RAND_SEED), PaletteFor(n))

---------------------------------------------------------------------------
(* render_forest *)

\* SELECT logged_on, COUNT(*) ... WHERE logged_on BETWEEN ? AND ? GROUP BY
\* logged_on: the logged_on values selected (a TEXT comparison)
RowsBetween(table, lo, hi) ==
    {s \in LoggedOnValues(table) : TextLE(lo, s) /\ TextLE(s, hi)}

RECURSIVE AssignCounts(_, _, _)
\* for d_iso, c in rows: counts[parse_iso(d_iso)] = int(c)
AssignCounts(counts, table, sel) ==
    IF sel = {} THEN counts
    ELSE LET s == CHOOSE x \in sel : TRUE
         IN  AssignCounts((parse_iso(s) :> CountOn(table, s)) @@ counts,
                          table, sel \ {s})

\* counts after the zero fill of [start, end] and the assignments from the
\* rows selected
FillCounts(table, start, end) ==
    AssignCounts([d \in start..end |-> 0], table,
                 RowsBetween(table, isoformat(start), isoformat(end)))

RECURSIVE WalkBack(_, _)
\* the while loop of the per-day streak: day_streak when it stops
WalkBack(counts, cur) ==
    IF (cur - 1) \in DOMAIN counts /\ counts[cur - 1] > 0
    THEN 1 + WalkBack(counts, cur - 1)
    ELSE 0

\* the day's count added to the walk instead of the day itself
StreakValue_addCount(count, day_streak) ==
    IF count > 0 THEN day_streak + count ELSE 0

\* counts[d] = day_streak + 1 if counts[d] > 0 else 0
StreakValue(count, day_streak) == IF count > 0 THEN day_streak + 1 ELSE 0

RECURSIVE StreakLoop(_, _, _)
\* for d in counts.keys(): the keys are visited in ascending order from d
\* to last and counts is overwritten in place
StreakLoop(counts, d, last) ==
    IF d > last THEN counts
    ELSE StreakLoop(
            [counts EXCEPT ![d] = StreakValue(counts[d], WalkBack(counts, d))],
            d + 1, last)

\* a grid that starts on the first day of the window
AlignToMonday_none(start) == start

\* start - timedelta(days=(start.weekday() - 0) % 7)
AlignToMonday(start) == start - ((weekday(start) - 0) % 7)

\* cols = (days_total + 6) // 7
ColsFor(days_total) == (days_total + 6) \div 7

\* grid = [[" " for _ in range(cols)] for _ in range(7)]; rows are 0..6
BlankGrid(cols) == [row \in 0..6 |-> [c \in 1..cols |-> " "]]

\* a window that leaves its first day out
OutsideWindow_startExcluded(d, start, end) == d <= start \/ d > end

\* d < start or d > end
OutsideWindow(d, start, end) == d < start \/ d > end

\* counts.get(d, 0)
GetCount(counts, d) == IF d \in DOMAIN counts THEN counts[d] ELSE 0

\* the cell (row, col) the loop writes for day number i
CellOf(start_aligned, i) ==
    [row |-> weekday(start_aligned + i), col |-> i \div 7]

RECURSIVE GridLoop(_, _, _, _, _, _, _, _)
\* for i in range(days_total): the grid and the generator after the loop
GridLoop(grid, g, i, days_total, start_aligned, start, end, counts) ==
    IF i >= days_total THEN [grid |-> grid, rand |-> g]
    ELSE LET d    == start_aligned + i
             cell == CellOf(start_aligned, i)
         IN  IF OutsideWindow(d, start, end)
             THEN GridLoop([grid EXCEPT ![cell.row][cell.col + 1] = " "], g,
                           i + 1, days_total, start_aligned, start, end, counts)
             ELSE LET st == stage_for_count(GetCount(counts, d), g)
                  IN  GridLoop(
                        [grid EXCEPT ![cell.row][cell.col + 1] = st.symbol],
                        st.rand, i + 1, days_total, start_aligned, start, end,
                        counts)

weekday_labels == <<"Mon", "Tue", "Wed", "Thu", "Fri", "Sat", "Sun">>

\* render_forest(conn, weeks): the lines of the text returned, with the
\* grid and the per-day streaks they were made from, and the generator left
render_forest(table, weeks, now, g) ==
    LET end           == now
        start         == end - (weeks * 7 - 1)
        counts        == StreakLoop(FillCounts(table, start, end), start, end)
        start_aligned == AlignToMonday(start)
        days_total    == (end - start_aligned) + 1
        cols          == ColsFor(days_total)
        filled        == GridLoop(BlankGrid(cols), g, 0, days_total,
                                  start_aligned, start, end, counts)
    IN  [lines   |-> <<<<"PaperForest - last ", weeks, " weeks (Mon->Sun)">>>>
                        \o [r \in 1..7 |->
                              <<weekday_labels[r], "  ">> \o filled.grid[r - 1]],
         grid    |-> filled.grid,
         streaks |-> counts,
         rand    |-> filled.rand]

---------------------------------------------------------------------------
(* Commands *)

NoOutput == [cmd |-> "none"]
NoCall   == [n |-> 0, symbol |-> "none"]

\* cmd_stats with --weeks weeks
cmd_stats(weeks) ==
    LET days   == get_distinct_days(log)
        streak == compute_streaks(days, today)
        forest == render_forest(log, weeks, today, rand)
    IN  /\ out' = [cmd         |-> "stats",
                   weeks       |-> weeks,
                   total       |-> Len(log),
                   active_days |-> Len(days),
                   cur         |-> streak[1],
                   longest     |-> streak[2],
                   forest      |-> forest.lines,
                   grid        |-> forest.grid,
                   streaks     |-> forest.streaks]
        /\ rand' = forest.rand
        /\ UNCHANGED <<today, log, sym>>

\* the None of an optional argument
None == <<"None">>

\* str.strip() of spaces
Strip(t) ==
    LET keep == {i \in 1..Len(t) : t[i] # " "}
    IN  IF keep = {} THEN <<>>
        ELSE SubSeq(t, CHOOSE i \in keep : \A j \in keep : i <= j,
                       CHOOSE i \in keep : \A j \in keep : j <= i)

\* logged.replace('-', '')
RemoveDashes(t) == SelectSeq(t, LAMBDA c : c # "-")

today_iso == isoformat(today)

\* the paper_id add_log makes up: YYYYMMDD and the number of logs of that
\* day + 1
GeneratedId(table, logged) ==
    RemoveDashes(logged) \o Decimal(CountOn(table, logged) + 1)

\* add_log(conn, title, summary, paper_id, logged_on)
add_log(paper_id, logged_on) ==
    LET logged == IF logged_on = None \/ logged_on = <<>>
                  THEN today_iso ELSE logged_on
        pid    == IF paper_id # None THEN Strip(paper_id)
                  ELSE GeneratedId(log, logged)
    IN  /\ log' = Append(log, Row(pid, logged))
        /\ UNCHANGED <<today, out, sym, rand>>

\* cmd_remove with the integer argument id: paper_id = ? compares the TEXT
\* column with the integer converted to text
cmd_remove(id) ==
    LET key   == Decimal(id)
        found == Cardinality({i \in 1..Len(log) : log[i].paper_id = key})
    IN  /\ IF found = 0
           THEN /\ out' = [cmd |-> "remove", id |-> id, removed |-> FALSE]
                /\ log' = log
           ELSE /\ out' = [cmd |-> "remove", id |-> id, removed |-> TRUE]
                /\ log' = SelectSeq(log, LAMBDA r : r.paper_id # key)
        /\ UNCHANGED <<today, sym, rand>>

\* a direct call stage_for_count(n)
StageCall(n) ==
    LET st == stage_for_count(n, rand)
    IN  /\ sym' = [n |-> n, symbol |-> st.symbol]
        /\ rand' = st.rand
        /\ UNCHANGED <<today, log, out>>

\* a table with counts[d] rows logged on each day d, each with a paper_id
\* the user supplied
TableOf(counts, days) ==
    LET RECURSIVE Build(_)
        Build(d) ==
            IF d \notin days THEN <<>>
            ELSE [i \in 1..counts[d] |-> Row(<<"x">>, isoformat(d))]
                    \o Build(d + 1)
    IN  IF days = {} THEN <<>>
        ELSE Build(CHOOSE d \in days : \A e \in days : d <= e)

\* one run of the stats command on any table of at most MaxCount logs on
\* each of LogDays, on any today
Init ==
    /\ today \in Todays
    /\ log \in {TableOf(c, LogDays) : c \in [LogDays -> 0..MaxCount]}
    /\ out = NoOutput
    /\ sym = NoCall
    /\ rand = 0

Stats == \E weeks \in WeeksArg : cmd_stats(weeks)

\* main(): one run of `paperforest stats`, which prints once and exits
RunStats == out = NoOutput /\ Stats

Next == RunStats

Spec == Init /\ [][Next]_vars

\* the stage selector next to the renders: tables of at most one log a day
InitStage ==
    /\ today \in Todays
    /\ log \in {TableOf(c, LogDays) : c \in [LogDays -> {0, 1}]}
    /\ out = NoOutput
    /\ sym = NoCall
    /\ rand = 0

Stage == \E n \in MinN..MaxN : StageCall(n)

NextStage == Stats \/ Stage

SpecStage == InitStage /\ [][NextStage]_vars

\* the reading log from the empty table
LoggedOnArgs == {None} \cup {isoformat(d) : d \in AddDays}
PaperIdArgs  == {None, <<" ", "x", " ">>}
RemoveArgs   ==
    {ParseInt(SubSeq(isoformat(d), 1, 4)) * 100000
        + ParseInt(SubSeq(isoformat(d), 6, 7)) * 1000
        + ParseInt(SubSeq(isoformat(d), 9, 10)) * 10 + k :
            d \in AddDays, k \in 1..MaxLogs}

InitLog ==
    /\ today \in Todays
    /\ log = <<>>
    /\ out = NoOutput
    /\ sym = NoCall
    /\ rand = 0

AddLog ==
    /\ Len(log) < MaxLogs
    /\ \E paper_id \in PaperIdArgs, logged_on \in LoggedOnArgs :
          add_log(paper_id, logged_on)

Remove == \E id \in RemoveArgs : cmd_remove(id)

NextLog == AddLog \/ Remove

SpecLog == InitLog /\ [][NextLog]_vars

---------------------------------------------------------------------------
(* What the properties are stated in terms of *)

\* the days that carry at least one log
LoggedDays == {parse_iso(s) : s \in LoggedOnValues(log)}

\* the number of logs of day d
EventCount(d) == CountOn(log, isoformat(d))

\* the largest element of a non-empty set of numbers
MaxOf(S) == CHOOSE x \in S : \A y \in S : y <= x

\* the lengths of the maximal runs of consecutive days of S
RunLengths(S) ==
    {n \in 1..Cardinality(S) :
        \E d \in S : /\ (d - 1) \notin S
                     /\ \A k \in 0..(n - 1) : (d + k) \in S
                     /\ (d + n) \notin S}

LongestRun(S) == IF S = {} THEN 0 ELSE MaxOf(RunLengths(S))

\* the length of the run of consecutive days of S that ends at e \in S
RunEndingAt(S, e) ==
    CHOOSE n \in 1..Cardinality(S) :
        /\ \A k \in 0..(n - 1) : (e - k) \in S
        /\ (e - n) \notin S

CurrentRun(S, now) ==
    IF now \in S THEN RunEndingAt(S, now)
    ELSE IF (now - 1) \in S THEN RunEndingAt(S, now - 1)
    ELSE 0

Rendered == out.cmd = "stats"

\* the window of the last render and its aligned Monday
WinEnd   == today
WinStart == today - (out.weeks * 7 - 1)
Window   == WinStart .. WinEnd
WinMonday == CHOOSE m \in (WinStart - 6)..WinStart : weekday(m) = 0

\* the cell of the last grid at a row and a (0-based) column
Cell(row, col) == out.grid[row][col + 1]

\* the cell a date of the aligned window belongs to
CellOfDate(d) == Cell(weekday(d), (d - WinMonday) \div 7)

Members(seq) == {seq[i] : i \in 1..Len(seq)}

TierSymbols ==
    Members(SEED_LIST) \cup Members(SAPLING_LIST) \cup Members(TREE_LIST)
        \cup Members(BUG_LIST) \cup Members(WOODLAND_ANIMAL_LIST)

---------------------------------------------------------------------------
(* Streak calculator *)

\* C1: the longest streak returned is the length of the longest maximal
\* run of consecutive logged days, and (0, 0) is returned for no days.
C1_Longest ==
    Rendered =>
        /\ out.longest = LongestRun(LoggedDays)
        /\ (LoggedDays = {} => out.cur = 0 /\ out.longest = 0)

\* two runs of different lengths separated by a gap, the longer one reported
C1_Witness ==
    /\ Rendered
    /\ Cardinality(RunLengths(LoggedDays)) = 2
    /\ Cardinality({d \in LoggedDays : (d - 1) \notin LoggedDays}) = 2
    /\ out.longest = MaxOf(RunLengths(LoggedDays))
    /\ out.longest > 1

\* C2: the current streak is the run ending today if today is logged, else
\* the run ending yesterday if yesterday is logged, else 0 with longest
\* still returned; K consecutive days ending today give (K, K), and a
\* latest day two or more days back gives 0.
C2_Current ==
    Rendered =>
        /\ out.cur = CurrentRun(LoggedDays, today)
        /\ (today \notin LoggedDays /\ (today - 1) \notin LoggedDays
                => out.cur = 0 /\ out.longest = LongestRun(LoggedDays))
        /\ \A K \in 1..Cardinality(LoggedDays) :
                LoggedDays = (today - K + 1)..today
                    => out.cur = K /\ out.longest = K
        /\ (LoggedDays # {} /\ MaxOf(LoggedDays) <= today - 2 => out.cur = 0)

\* today not logged, a run of at least two days ending yesterday
C2_Witness ==
    /\ Rendered
    /\ today \notin LoggedDays
    /\ (today - 1) \in LoggedDays
    /\ (today - 2) \in LoggedDays
    /\ out.cur >= 2

---------------------------------------------------------------------------
(* Per-day streaks and the grid *)

RECURSIVE ForwardPass(_, _, _)
\* one pass over d..last carrying a counter that is reset to 0 on a day
\* without events: the streak of each day visited
ForwardPass(d, last, running) ==
    IF d > last THEN <<>>
    ELSE LET r == IF EventCount(d) = 0 THEN 0 ELSE running + 1
         IN  (d :> r) @@ ForwardPass(d + 1, last, r)

\* the number of active days of the window immediately before d
ActiveBefore(d) ==
    CHOOSE n \in 0..(d - WinStart) :
        /\ \A k \in 1..n : EventCount(d - k) > 0
        /\ (d - n - 1 < WinStart \/ EventCount(d - n - 1) = 0)

\* C3: the per-day streaks of the backward walk, which overwrites the
\* counts in place, are those of the single forward pass: 0 on a day
\* without events, else 1 + the active days immediately before it inside
\* the window.
C3_WalkIsForwardPass ==
    Rendered =>
        /\ DOMAIN out.streaks = Window
        /\ out.streaks = ForwardPass(WinStart, WinEnd, 0)
        /\ \A d \in Window :
            /\ out.streaks[d] =
                  (IF EventCount(d) = 0 THEN 0 ELSE 1 + ActiveBefore(d))
            /\ out.streaks[d] <= (d - WinStart) + 1
            /\ (d > WinStart /\ EventCount(d) > 0 /\ EventCount(d - 1) > 0
                  => out.streaks[d] = out.streaks[d - 1] + 1)

\* a third active day in a row, after a day with two logs
C3_Witness ==
    /\ Rendered
    /\ \E d \in Window :
        /\ out.streaks[d] = 3
        /\ EventCount(d - 1) = 2
        /\ (d - 3) \in Window
        /\ out.streaks[d - 3] = 0

\* C4: with weeks >= 1 each date from the aligned Monday to today sits at
\* (weekday, days since the Monday div 7), no two dates share a cell, a
\* cell is non-blank exactly when its date is in [start, end], and the
\* padding before start and the rest of the last week are blank.
C4_Placement ==
    Rendered /\ out.weeks >= 1 =>
        /\ weekday(WinMonday) = 0
        /\ \A d \in WinMonday..WinEnd :
            /\ weekday(d) \in DOMAIN out.grid
            /\ ((d - WinMonday) \div 7) + 1 \in DOMAIN out.grid[weekday(d)]
            /\ CellOfDate(d) =
                 (IF d \in Window
                  THEN stage_for_count(out.streaks[d], 0).symbol
                  ELSE " ")
        /\ \A d, e \in WinMonday..WinEnd :
             d # e => <<weekday(d), (d - WinMonday) \div 7>>
                          # <<weekday(e), (e - WinMonday) \div 7>>
        /\ \A row \in DOMAIN out.grid :
             \A c \in DOMAIN out.grid[row] :
                /\ (out.grid[row][c] # " ")
                      <=> (WinMonday + 7 * (c - 1) + row) \in Window
                /\ (WinMonday + 7 * (c - 1) + row < WinStart
                      => out.grid[row][c] = " ")
                /\ (WinMonday + 7 * (c - 1) + row > WinEnd
                      => out.grid[row][c] = " ")

\* padding before start, cells after today, and a logged day in between
C4_Witness ==
    /\ Rendered
    /\ out.weeks >= 1
    /\ WinMonday < WinStart
    /\ weekday(WinEnd) < 6
    /\ Cell(0, 0) = " "
    /\ Cell(6, Len(out.grid[6]) - 1) = " "
    /\ \E d \in Window : CellOfDate(d) \in TierSymbols

\* C5: the grid has 7 rows of ceil(D / 7) columns each, D the days from
\* the aligned Monday to today; that is weeks columns when start is a
\* Monday and weeks + 1 otherwise.
C5_Shape ==
    Rendered /\ out.weeks >= 1 =>
        LET D == (WinEnd - WinMonday) + 1
            ceil == CHOOSE c \in 0..D : 7 * c >= D /\ 7 * (c - 1) < D
        IN  /\ DOMAIN out.grid = 0..6
            /\ \A row \in 0..6 : Len(out.grid[row]) = ceil
            /\ \A row \in 0..6 :
                 Len(out.grid[row]) =
                    (IF weekday(WinStart) = 0 THEN out.weeks
                     ELSE out.weeks + 1)

\* a window that does not start on a Monday: one column more than weeks
C5_Witness ==
    /\ Rendered
    /\ out.weeks >= 1
    /\ weekday(WinStart) # 0
    /\ Len(out.grid[3]) = out.weeks + 1

\* C6: a day of the window without events renders as the empty glyph and
\* never as a tier symbol, whatever its neighbours are, and a day with
\* events never renders as the empty glyph.
C6_EmptyGlyph ==
    Rendered /\ out.weeks >= 1 =>
        \A d \in Window :
            /\ (EventCount(d) = 0 => CellOfDate(d) = ".")
            /\ (EventCount(d) = 0 => CellOfDate(d) \notin TierSymbols)
            /\ (EventCount(d) > 0 => CellOfDate(d) # ".")

\* a day without events between two active days
C6_Witness ==
    /\ Rendered
    /\ out.weeks >= 1
    /\ \E d \in Window :
        /\ (d - 1) \in Window /\ (d + 1) \in Window
        /\ EventCount(d) = 0
        /\ EventCount(d - 1) > 0 /\ EventCount(d + 1) > 0
        /\ CellOfDate(d) = "."
        /\ CellOfDate(d + 1) \in TierSymbols

\* C9: a render with weeks <= 0 is rejected and returns no grid: no such
\* call yields a grid of zero columns or of blank cells only.
C9_WeeksRejected ==
    ~ ( /\ Rendered
        /\ out.weeks <= 0
        /\ \A row \in DOMAIN out.grid :
             \A c \in DOMAIN out.grid[row] : out.grid[row][c] = " " )

---------------------------------------------------------------------------
(* Stage selector *)

Called == sym # NoCall

TierOf(n) == IF n <= 0 THEN 0 ELSE IF n >= 5 THEN 5 ELSE n

\* the cells of the last grid whose streak values share a tier show the
\* same symbol
SameTierSameSymbol ==
    Rendered /\ out.weeks >= 1 =>
        \A d, e \in Window :
            TierOf(out.streaks[d]) = TierOf(out.streaks[e])
                => CellOfDate(d) = CellOfDate(e)

\* C8: a render of the same counts, weeks and today repeats the grid of
\* the render before it, whatever calls of stage_for_count were made in
\* between; stage_for_count repeats its symbol for the same n; and the
\* cells of one grid in the same tier show the same symbol.
C8_Deterministic ==
    [][ /\ ( (Rendered /\ out'.cmd = "stats" /\ out'.weeks = out.weeks
                /\ log' = log /\ today' = today)
                => (out'.grid = out.grid /\ out'.forest = out.forest) )
        /\ ( (Called /\ sym'.n = sym.n) => (sym'.symbol = sym.symbol) )
        /\ SameTierSameSymbol' ]_vars

\* a grid with two cells of one tier, and a call drawn from a palette
C8_Witness ==
    /\ Rendered
    /\ out.weeks >= 1
    /\ Called
    /\ sym.n > 0
    /\ rand > 0
    /\ \E d, e \in Window :
        /\ d # e
        /\ out.streaks[d] = 1 /\ out.streaks[e] = 1
        /\ CellOfDate(d) = CellOfDate(e)
        /\ CellOfDate(d) \in Members(SEED_LIST)

---------------------------------------------------------------------------
(* Reading log *)

\* the rows whose paper_id add_log made up
Generated(i) == log[i].paper_id # Strip(<<" ", "x", " ">>)

\* C10: after add_log calls without a paper_id and cmd_remove calls, no
\* two rows carry the same generated paper_id.
C10_UniqueIds ==
    (\A i \in 1..Len(log) : Generated(i)) =>
        \A i, j \in 1..Len(log) :
            i # j => log[i].paper_id # log[j].paper_id

===========================================================================
